---- MODULE Spec2Model ----
(***************************************************************************)
(* Model of class Sieve (src/javascript/Sieve/sieve.js): the four          *)
(* strategies sieveOfEratosthenes, segmentedSieve, optimizedSieve and      *)
(* optimizedSieve2, and the dispatcher NthPrime.                           *)
(*                                                                         *)
(* One behaviour takes one query n and calls the four strategies one       *)
(* after the other: sieveOfEratosthenes(n), segmentedSieve(n),             *)
(* optimizedSieve(n), NthPrime(n).  Every call works on its own locals;    *)
(* what a call returned (or that it threw) is kept in retE, retS, retO1    *)
(* and retO2.  A loop of the source is one action per iteration of its     *)
(* outermost loop.  SpecWheel is NthPrime(n) called alone, for a larger    *)
(* range of n.                                                             *)
(*                                                                         *)
(* JavaScript numbers: n*(ln n + ln ln n) + 3 is NaN for a negative n;     *)
(* the divisions limit/6, root/6 and root/2 are not integer divisions, so  *)
(* the rescaled limit and root of optimizedSieve2 are kept in thirds and   *)
(* the root of optimizedSieve in halves.                                   *)
(***************************************************************************)
EXTENDS Integers, Sequences, FiniteSets, TLC

\* The queries of the model are the integers -NegN .. MaxN.
MaxN == 100
NegN == 3

\* The queries of the specification of NthPrime alone are 0 .. MaxWheelN.
MaxWheelN == 560

(***************************************************************************)
(* Math.floor(n * (Math.log(n) + Math.log(Math.log(n))) + 3) for           *)
(* n = 3 .. 570, in IEEE doubles.  The fractional part of the              *)
(* expression lies between 0.001 and 0.999 for these n, so Math.ceil of    *)
(* it is the entry plus one.                                               *)
(***************************************************************************)
LogBoundTable ==
  <<
     6, 9, 13, 17, 21, 25, 29, 34, 38, 43, 48, 53, 58, 63,
     68, 74, 79, 84, 90, 95, 101, 107, 112, 118, 124, 130, 135, 141,
     147, 153, 159, 165, 171, 177, 184, 190, 196, 202, 209, 215, 221, 228,
     234, 240, 247, 253, 260, 266, 273, 279, 286, 293, 299, 306, 313, 319,
     326, 333, 339, 346, 353, 360, 367, 374, 380, 387, 394, 401, 408, 415,
     422, 429, 436, 443, 450, 457, 464, 471, 478, 485, 493, 500, 507, 514,
     521, 528, 536, 543, 550, 557, 565, 572, 579, 586, 594, 601, 608, 616,
     623, 630, 638, 645, 653, 660, 667, 675, 682, 690, 697, 705, 712, 720,
     727, 735, 742, 750, 757, 765, 772, 780, 788, 795, 803, 810, 818, 826,
     833, 841, 849, 856, 864, 872, 879, 887, 895, 903, 910, 918, 926, 934,
     941, 949, 957, 965, 972, 980, 988, 996, 1004, 1011, 1019, 1027, 1035, 1043,
     1051, 1059, 1067, 1074, 1082, 1090, 1098, 1106, 1114, 1122, 1130, 1138, 1146, 1154,
     1162, 1170, 1178, 1186, 1194, 1202, 1210, 1218, 1226, 1234, 1242, 1250, 1258, 1266,
     1274, 1282, 1290, 1298, 1306, 1314, 1322, 1331, 1339, 1347, 1355, 1363, 1371, 1379,
     1387, 1396, 1404, 1412, 1420, 1428, 1436, 1445, 1453, 1461, 1469, 1477, 1486, 1494,
     1502, 1510, 1519, 1527, 1535, 1543, 1552, 1560, 1568, 1576, 1585, 1593, 1601, 1610,
     1618, 1626, 1634, 1643, 1651, 1659, 1668, 1676, 1684, 1693, 1701, 1709, 1718, 1726,
     1735, 1743, 1751, 1760, 1768, 1776, 1785, 1793, 1802, 1810, 1818, 1827, 1835, 1844,
     1852, 1861, 1869, 1877, 1886, 1894, 1903, 1911, 1920, 1928, 1937, 1945, 1954, 1962,
     1971, 1979, 1988, 1996, 2005, 2013, 2022, 2030, 2039, 2047, 2056, 2064, 2073, 2081,
     2090, 2099, 2107, 2116, 2124, 2133, 2141, 2150, 2159, 2167, 2176, 2184, 2193, 2202,
     2210, 2219, 2227, 2236, 2245, 2253, 2262, 2270, 2279, 2288, 2296, 2305, 2314, 2322,
     2331, 2340, 2348, 2357, 2366, 2374, 2383, 2392, 2400, 2409, 2418, 2427, 2435, 2444,
     2453, 2461, 2470, 2479, 2488, 2496, 2505, 2514, 2522, 2531, 2540, 2549, 2557, 2566,
     2575, 2584, 2592, 2601, 2610, 2619, 2628, 2636, 2645, 2654, 2663, 2672, 2680, 2689,
     2698, 2707, 2716, 2724, 2733, 2742, 2751, 2760, 2768, 2777, 2786, 2795, 2804, 2813,
     2822, 2830, 2839, 2848, 2857, 2866, 2875, 2884, 2892, 2901, 2910, 2919, 2928, 2937,
     2946, 2955, 2964, 2972, 2981, 2990, 2999, 3008, 3017, 3026, 3035, 3044, 3053, 3062,
     3071, 3079, 3088, 3097, 3106, 3115, 3124, 3133, 3142, 3151, 3160, 3169, 3178, 3187,
     3196, 3205, 3214, 3223, 3232, 3241, 3250, 3259, 3268, 3277, 3286, 3295, 3304, 3313,
     3322, 3331, 3340, 3349, 3358, 3367, 3376, 3385, 3394, 3403, 3412, 3421, 3430, 3439,
     3448, 3457, 3466, 3475, 3484, 3493, 3503, 3512, 3521, 3530, 3539, 3548, 3557, 3566,
     3575, 3584, 3593, 3602, 3612, 3621, 3630, 3639, 3648, 3657, 3666, 3675, 3684, 3693,
     3703, 3712, 3721, 3730, 3739, 3748, 3757, 3766, 3776, 3785, 3794, 3803, 3812, 3821,
     3831, 3840, 3849, 3858, 3867, 3876, 3885, 3895, 3904, 3913, 3922, 3931, 3941, 3950,
     3959, 3968, 3977, 3986, 3996, 4005, 4014, 4023, 4032, 4042, 4051, 4060, 4069, 4079,
     4088, 4097, 4106, 4115, 4125, 4134, 4143, 4152, 4162, 4171, 4180, 4189, 4199, 4208,
     4217, 4226, 4236, 4245, 4254, 4263, 4273, 4282, 4291, 4300, 4310, 4319, 4328, 4337,
     4347, 4356, 4365, 4375, 4384, 4393, 4402, 4412, 4421, 4430, 4440, 4449, 4458, 4468,
     4477, 4486, 4495, 4505, 4514, 4523, 4533, 4542, 4551, 4561, 4570, 4579, 4589, 4598,
     4607, 4617, 4626, 4635, 4645, 4654, 4663, 4673 >>

\* n * (Math.log(n) + Math.log(Math.log(n))) + 3 is NaN: Math.log of a
\* negative number is NaN, and NaN goes through every operation on it.
BoundIsNaN(m) == m < 0

\* Math.floor(n * (Math.log(n) + Math.log(Math.log(n))) + 3), n >= 3
FloorBound(m) == LogBoundTable[m - 2]

\* Math.ceil(n * (Math.log(n) + Math.log(Math.log(n))) + 3), n >= 3
CeilBound(m) == LogBoundTable[m - 2] + 1

\* Math.floor(Math.sqrt(x)) for an integer x >= 0
FloorSqrt(x) == CHOOSE r \in 0..x : r * r <= x /\ (r + 1) * (r + 1) > x

----------------------------------------------------------------------------
(* Reference notions the properties are stated with. *)

\* x is a prime number, by trial division
Divides(d, x) == x % d = 0
TrialPrime(x) == x >= 2 /\ \A d \in 2..FloorSqrt(x) : ~Divides(d, x)

\* Every value a run of the model handles is below RefMax.
RefMax == LogBoundTable[Len(LogBoundTable)] + 32

\* the prime numbers up to RefMax
Primes == {q \in 2..RefMax : TrialPrime(q)}

IsPrime(x) == x \in Primes

PrimesUpTo(x) == {q \in 2..x : q \in Primes}

\* v is the 0-indexed m-th prime: v is prime and exactly m primes are smaller.
IsNthPrime(m, v) == IsPrime(v) /\ Cardinality(PrimesUpTo(v - 1)) = m

\* The elements of the finite set S of integers in ascending order.
SortedSeq(S) ==
  [a \in 1..Cardinality(S) |-> CHOOSE x \in S : Cardinality({y \in S : y < x}) = a - 1]

StrictlyAscending(s) == \A a \in 1..(Len(s) - 1) : s[a] < s[a + 1]

AllPrime(s) == \A a \in 1..Len(s) : IsPrime(s[a])

----------------------------------------------------------------------------
VARIABLES
  n,           \* the query
  pc,          \* the statement the run is at
  retE,        \* outcome of sieveOfEratosthenes(n)
  retS,        \* outcome of segmentedSieve(n)
  retO1,       \* outcome of optimizedSieve(n)
  retO2,       \* outcome of NthPrime(n) = optimizedSieve2(n)
  \* sieveOfEratosthenes
  eArg,        \* its parameter n
  eCaller,     \* "top": called with the query; "seg": called by segmentedSieve
  integers,    \* the array integers, indices 0 .. upperBound
  eI,          \* i of the marking loop
  \* segmentedSieve
  upperBound, segmentSize, primes, bottom, top,
  \* optimizedSieve
  limit1, root1, sieve1, count1, i1, p1,
  \* optimizedSieve2
  limit, root, dim, sieve, i, count, k, p, mask

eVars == <<eArg, eCaller, integers, eI>>
sVars == <<upperBound, segmentSize, primes, bottom, top>>
o1Vars == <<limit1, root1, sieve1, count1, i1, p1>>
o2Vars == <<limit, root, dim, sieve, i, count, k, p, mask>>
rets == <<retE, retS, retO1, retO2>>
vars == <<n, pc, rets, eVars, sVars, o1Vars, o2Vars>>

Pending == [st |-> "pending", val |-> 0]
Returned(v) == [st |-> "returned", val |-> v]
Threw(e) == [st |-> "threw", val |-> e]

Init ==
  /\ n \in (0 - NegN)..MaxN
  /\ pc = "E_entry"
  /\ retE = [st |-> "pending", val |-> <<>>]
  /\ retS = [st |-> "pending", val |-> <<>>]
  /\ retO1 = Pending
  /\ retO2 = Pending
  /\ eArg = n /\ eCaller = "top" /\ integers = <<>> /\ eI = 0
  /\ upperBound = 0 /\ segmentSize = 0 /\ primes = <<>> /\ bottom = 0 /\ top = 0
  /\ limit1 = 0 /\ root1 = 0 /\ sieve1 = {} /\ count1 = 0 /\ i1 = 0 /\ p1 = 0
  /\ limit = [nan |-> FALSE, thirds |-> 0]
  /\ root = [nan |-> FALSE, thirds |-> 0]
  /\ dim = 0 /\ sieve = <<>> /\ i = 0 /\ count = 0 /\ k = 0 /\ p = 0 /\ mask = {}

----------------------------------------------------------------------------
(* sieveOfEratosthenes(n), lines 7-43 *)

\* integers.length
ArrLen(a) == Cardinality(DOMAIN a)

\* new Array(upperBound + 1).fill(true)
NewArray(len) == [x \in 0..(len - 1) |-> TRUE]

\* the first three primes, hardcoded (lines 15-17, 51-53)
FirstPrimes(m) == SubSeq(<<2, 3, 5>>, 1, m + 1)

\* j = i*i of the inner loop, line 28
EMarkStart(a) == a * a

\* the indices the inner loop of line 28 sets to false
EMultiples(a, len) ==
  {j \in 0..(len - 1) : j >= EMarkStart(a) /\ (j - EMarkStart(a)) % a = 0}

\* lines 34-40: the indices k >= 2 with integers[k] true, in ascending order
ECollect(a) == SortedSeq({x \in DOMAIN a : x >= 2 /\ a[x]})

\* return of sieveOfEratosthenes: to the top level, or into primes of
\* segmentedSieve (lines 57, 60, 61)
EReturn(v) ==
  IF eCaller = "top"
  THEN /\ retE' = Returned(v)
       /\ pc' = "S_entry"
       /\ UNCHANGED <<primes, bottom, top>>
  ELSE /\ primes' = v
       /\ bottom' = segmentSize
       /\ top' = segmentSize * 2
       /\ pc' = "S_window"
       /\ UNCHANGED retE

\* lines 15-17: the hardcoded answers
EHardcoded ==
  /\ pc = "E_entry"
  /\ eArg \in 0..2
  /\ EReturn(FirstPrimes(eArg))
  /\ UNCHANGED <<n, retS, retO1, retO2, eVars, upperBound, segmentSize, o1Vars, o2Vars>>

\* lines 19-23 with a NaN bound: new Array(NaN) throws a RangeError
EThrow ==
  /\ pc = "E_entry"
  /\ eArg \notin 0..2
  /\ BoundIsNaN(eArg)
  /\ eCaller = "top"
  /\ retE' = Threw("RangeError")
  /\ pc' = "S_entry"
  /\ UNCHANGED <<n, retS, retO1, retO2, eVars, sVars, o1Vars, o2Vars>>

\* lines 19-23: the bound and the array
EAlloc ==
  /\ pc = "E_entry"
  /\ eArg \notin 0..2
  /\ ~BoundIsNaN(eArg)
  /\ integers' = NewArray(CeilBound(eArg) + 1)
  /\ eI' = 2
  /\ pc' = "E_mark"
  /\ UNCHANGED <<n, rets, eArg, eCaller, sVars, o1Vars, o2Vars>>

\* lines 26-32: one iteration of the marking loop
EMark ==
  /\ pc = "E_mark"
  /\ eI < ArrLen(integers)
  /\ integers' =
       IF integers[eI]
       THEN LET marked == EMultiples(eI, ArrLen(integers))
            IN [x \in DOMAIN integers |-> IF x \in marked THEN FALSE ELSE integers[x]]
       ELSE integers
  /\ eI' = eI + 1
  /\ UNCHANGED <<n, pc, rets, eArg, eCaller, sVars, o1Vars, o2Vars>>

\* lines 34-42: gather the primes and return them
ECollectReturn ==
  /\ pc = "E_mark"
  /\ eI >= ArrLen(integers)
  /\ EReturn(ECollect(integers))
  /\ UNCHANGED <<n, retS, retO1, retO2, eVars, upperBound, segmentSize, o1Vars, o2Vars>>

----------------------------------------------------------------------------
(* segmentedSieve(n), lines 50-92 *)

\* lines 51-53
SHardcoded ==
  /\ pc = "S_entry"
  /\ n \in 0..2
  /\ retS' = Returned(FirstPrimes(n))
  /\ pc' = "O1_entry"
  /\ UNCHANGED <<n, retE, retO1, retO2, eVars, sVars, o1Vars, o2Vars>>

\* lines 54-57 with a NaN bound: segmentSize is NaN, and
\* sieveOfEratosthenes(NaN) throws at its line 23
SThrow ==
  /\ pc = "S_entry"
  /\ n \notin 0..2
  /\ BoundIsNaN(n)
  /\ retS' = Threw("RangeError")
  /\ pc' = "O1_entry"
  /\ UNCHANGED <<n, retE, retO1, retO2, eVars, sVars, o1Vars, o2Vars>>

\* lines 54-57: the bound, the segment size and the call of
\* sieveOfEratosthenes(segmentSize)
SSeed ==
  /\ pc = "S_entry"
  /\ n \notin 0..2
  /\ ~BoundIsNaN(n)
  /\ upperBound' = CeilBound(n)
  /\ segmentSize' = FloorSqrt(CeilBound(n)) + 1
  /\ eArg' = segmentSize'
  /\ eCaller' = "seg"
  /\ pc' = "E_entry"
  /\ UNCHANGED <<n, rets, integers, eI, primes, bottom, top, o1Vars, o2Vars>>

\* lines 72-75 with the test of line 73 dropped
LowestNoTest(b, q) == (b \div q) * q + q

\* lines 72-75: the lowest multiple of prime q that is >= b
Lowest(b, q) ==
  LET low == (b \div q) * q
  IN IF low < b THEN low + q ELSE low

\* lines 65-67: top clamped to upperBound
ClampTop == IF top >= upperBound THEN upperBound ELSE top

\* lines 68-82: the values j of the window that some primes[a] marks
SMarked(b, t) ==
  {j \in b..(t - 1) :
     \E a \in 1..Len(primes) :
        j >= Lowest(b, primes[a]) /\ (j - Lowest(b, primes[a])) % primes[a] = 0}

\* lines 64-90: one window
SWindow ==
  /\ pc = "S_window"
  /\ bottom < upperBound
  /\ primes' = primes \o SortedSeq((bottom..(ClampTop - 1)) \ SMarked(bottom, ClampTop))
  /\ bottom' = bottom + segmentSize
  /\ top' = ClampTop + segmentSize
  /\ UNCHANGED <<n, pc, rets, eVars, upperBound, segmentSize, o1Vars, o2Vars>>

\* line 91
SReturn ==
  /\ pc = "S_window"
  /\ bottom >= upperBound
  /\ retS' = Returned(primes)
  /\ pc' = "O1_entry"
  /\ UNCHANGED <<n, retE, retO1, retO2, eVars, sVars, o1Vars, o2Vars>>

----------------------------------------------------------------------------
(* optimizedSieve(n), lines 100-128.  Index a of sieve stands for the odd  *)
(* number 2a + 3.  root = root/2 - 1 is kept in halves: root1 = 2 * root.  *)

\* lines 101-103
O1Hardcoded ==
  /\ pc = "O1_entry"
  /\ n \in 0..2
  /\ retO1' = Returned(FirstPrimes(n)[n + 1])
  /\ pc' = "O2_entry"
  /\ UNCHANGED <<n, retE, retS, retO2, eVars, sVars, o1Vars, o2Vars>>

\* lines 108-112 with a NaN limit: new Array(NaN) throws a RangeError
O1Throw ==
  /\ pc = "O1_entry"
  /\ n \notin 0..2
  /\ BoundIsNaN(n)
  /\ retO1' = Threw("RangeError")
  /\ pc' = "O2_entry"
  /\ UNCHANGED <<n, retE, retS, retO2, eVars, sVars, o1Vars, o2Vars>>

\* lines 104-112
O1Alloc ==
  /\ pc = "O1_entry"
  /\ n \notin 0..2
  /\ ~BoundIsNaN(n)
  /\ limit1' = (FloorBound(n) - 1) \div 2
  /\ root1' = (FloorSqrt(FloorBound(n)) + 1) - 2
  /\ sieve1' = {}
  /\ count1' = 1
  /\ i1' = 0
  /\ pc' = "O1_mark"
  /\ UNCHANGED <<n, rets, eVars, sVars, p1, o2Vars>>

\* line 117: the indices j = 2i(i+3)+3, j += 2i+3, below limit
O1Multiples(a, lim) ==
  {j \in 0..(lim - 1) :
     j >= 2 * a * (a + 3) + 3 /\ (j - (2 * a * (a + 3) + 3)) % (2 * a + 3) = 0}

\* lines 114-121: one iteration of the marking loop (i < root)
O1Mark ==
  /\ pc = "O1_mark"
  /\ 2 * i1 < root1
  /\ IF i1 \notin sieve1
     THEN /\ count1' = count1 + 1
          /\ sieve1' = sieve1 \cup O1Multiples(i1, limit1)
     ELSE UNCHANGED <<count1, sieve1>>
  /\ i1' = i1 + 1
  /\ UNCHANGED <<n, pc, rets, eVars, sVars, limit1, root1, p1, o2Vars>>

\* line 122, the initialisation p = Math.ceil(root)
O1MarkDone ==
  /\ pc = "O1_mark"
  /\ ~(2 * i1 < root1)
  /\ p1' = (root1 + 1) \div 2
  /\ pc' = "O1_scan"
  /\ UNCHANGED <<n, rets, eVars, sVars, limit1, root1, sieve1, count1, i1, o2Vars>>

\* lines 122-126: one iteration of the counting loop; sieve[p] is undefined
\* (falsy) for p >= limit
O1Scan ==
  /\ pc = "O1_scan"
  /\ count1 < n + 1
  /\ count1' = IF p1 \notin sieve1 THEN count1 + 1 ELSE count1
  /\ p1' = p1 + 1
  /\ UNCHANGED <<n, pc, rets, eVars, sVars, limit1, root1, sieve1, i1, o2Vars>>

\* line 127
O1Return ==
  /\ pc = "O1_scan"
  /\ ~(count1 < n + 1)
  /\ retO1' = Returned(2 * p1 + 1)
  /\ pc' = "O2_entry"
  /\ UNCHANGED <<n, retE, retS, retO2, eVars, sVars, o1Vars, o2Vars>>

----------------------------------------------------------------------------
(* NthPrime(n) = optimizedSieve2(n), lines 137-207 and 214-219.            *)
(* A number of the source that need not be an integer is a record          *)
(* [nan, thirds]: NaN, or the value thirds/3.  A word of the packed        *)
(* buffer is the set of its bit positions (0..31) that are 1.              *)

NaN == [nan |-> TRUE, thirds |-> 0]
Num(t) == [nan |-> FALSE, thirds |-> t]

\* a < x for an integer a; every comparison with NaN is false
Lt(a, x) == ~x.nan /\ 3 * a < x.thirds

\* a >= x for an integer a
Ge(a, x) == ~x.nan /\ 3 * a >= x.thirds

\* lines 154-163 and 164-173: switch (v % 6) for the integer v (NaN % 6 is
\* NaN and takes the default branch); v/6 is a floating-point division
Rescale(x) ==
  IF x.nan THEN NaN
  ELSE LET v == x.thirds \div 3
       IN CASE v % 6 = 0 -> Num(v - 3)
            [] v % 6 = 5 -> Num(v + 3)
            [] OTHER -> Num(v)

\* line 152
Limit0(m) == IF BoundIsNaN(m) THEN NaN ELSE Num(3 * FloorBound(m))

\* line 153
Root0(m) == IF BoundIsNaN(m) THEN NaN ELSE Num(3 * FloorSqrt(FloorBound(m)))

\* line 174: (limit+31) >> 5; ToInt32 drops the fraction, NaN becomes 0
Dim(x) == IF x.nan THEN 0 ELSE ((x.thirds + 93) \div 3) \div 32

\* sieve[w] as a 32-bit integer: an element never assigned is undefined,
\* which the bit operators read as 0
Word(sv, w) == IF w \in DOMAIN sv THEN sv[w] ELSE {}

\* (sieve[j >> 5] >> (j & 31)) & 1 as a truth value
BitSet(sv, j) == (j % 32) \in Word(sv, j \div 32)

\* sieve[j >> 5] |= 1 << (j & 31) for every j in S
SetBits(sv, S) ==
  [w \in DOMAIN sv \cup {j \div 32 : j \in S} |->
     Word(sv, w) \cup {j % 32 : j \in {x \in S : x \div 32 = w}}]

\* ~w
Not(w) == (0..31) \ w

\* lines 138-143: the number of 1 bits of a 32-bit integer
popCount(w) == Cardinality(w)

\* lines 179-187
WheelStart(a) == IF a % 2 = 1 THEN a * (3 * a + 8) + 4 ELSE a * (3 * a + 10) + 7
WheelS1(a) == IF a % 2 = 1 THEN 4 * a + 5 ELSE 2 * a + 3
WheelS2(a) == IF a % 2 = 1 THEN 2 * a + 3 ELSE 4 * a + 7

\* lines 188-193: the indices the inner loop marks: j, j+s1, j+s1+s2,
\* j+s1+s2+s1, ... as long as they are below lim
WheelMarks(j, s1, s2, lim) ==
  {x \in j..(lim.thirds \div 3) : Lt(x, lim) /\ (x - j) % (s1 + s2) \in {0, s1}}

\* line 206 without its last term
ReturnValueNoParity(pp, kk) == 3 * (pp + kk * 32) + 7

\* line 206
ReturnValue(pp, kk) == 3 * (pp + kk * 32) + 7 + (pp % 2)

\* lines 145-147
O2Hardcoded ==
  /\ pc = "O2_entry"
  /\ n \in 0..2
  /\ retO2' = Returned(FirstPrimes(n)[n + 1])
  /\ pc' = "done"
  /\ UNCHANGED <<n, retE, retS, retO1, eVars, sVars, o1Vars, o2Vars>>

\* lines 148-175
O2Alloc ==
  /\ pc = "O2_entry"
  /\ n \notin 0..2
  /\ limit' = Rescale(Limit0(n))
  /\ root' = Rescale(Root0(n))
  /\ dim' = Dim(limit')
  /\ sieve' = <<>>
  /\ count' = 2
  /\ i' = 0
  /\ pc' = "O2_mark"
  /\ UNCHANGED <<n, rets, eVars, sVars, o1Vars, k, p, mask>>

\* lines 176-195: one iteration of the marking loop (i < root)
O2Mark ==
  /\ pc = "O2_mark"
  /\ Lt(i, root)
  /\ sieve' =
       IF ~BitSet(sieve, i)
       THEN SetBits(sieve, WheelMarks(WheelStart(i), WheelS1(i), WheelS2(i), limit))
       ELSE sieve
  /\ i' = i + 1
  /\ UNCHANGED <<n, pc, rets, eVars, sVars, o1Vars, limit, root, dim, count, k, p, mask>>

\* lines 196-197, the initialisation k = 0
O2MarkDone ==
  /\ pc = "O2_mark"
  /\ ~Lt(i, root)
  /\ k' = 0
  /\ pc' = "O2_count"
  /\ UNCHANGED <<n, rets, eVars, sVars, o1Vars, limit, root, dim, sieve, i, count, p, mask>>

\* lines 197-199: one word of the counting loop
O2Count ==
  /\ pc = "O2_count"
  /\ count < n + 1
  /\ count' = count + popCount(Not(Word(sieve, k)))
  /\ k' = k + 1
  /\ UNCHANGED <<n, pc, rets, eVars, sVars, o1Vars, limit, root, dim, sieve, i, p, mask>>

\* lines 200-203: k--, the mask and p = 31
O2CountDone ==
  /\ pc = "O2_count"
  /\ ~(count < n + 1)
  /\ k' = k - 1
  /\ mask' = Not(Word(sieve, k - 1))
  /\ p' = 31
  /\ pc' = "O2_scan"
  /\ UNCHANGED <<n, rets, eVars, sVars, o1Vars, limit, root, dim, sieve, i, count>>

\* lines 203-205: one bit of the descending scan; mask >> p shifts by p & 31
O2Scan ==
  /\ pc = "O2_scan"
  /\ count >= n + 1
  /\ count' = IF (p % 32) \in mask THEN count - 1 ELSE count
  /\ p' = p - 1
  /\ UNCHANGED <<n, pc, rets, eVars, sVars, o1Vars, limit, root, dim, sieve, i, k, mask>>

\* lines 206 and 215
O2Return ==
  /\ pc = "O2_scan"
  /\ ~(count >= n + 1)
  /\ retO2' = Returned(ReturnValue(p, k))
  /\ pc' = "done"
  /\ UNCHANGED <<n, retE, retS, retO1, eVars, sVars, o1Vars, o2Vars>>

----------------------------------------------------------------------------
Next ==
  \/ EHardcoded \/ EThrow \/ EAlloc \/ EMark \/ ECollectReturn
  \/ SHardcoded \/ SThrow \/ SSeed \/ SWindow \/ SReturn
  \/ O1Hardcoded \/ O1Throw \/ O1Alloc \/ O1Mark \/ O1MarkDone \/ O1Scan \/ O1Return
  \/ O2Hardcoded \/ O2Alloc \/ O2Mark \/ O2MarkDone \/ O2Count \/ O2CountDone
  \/ O2Scan \/ O2Return

Spec == Init /\ [][Next]_vars

----------------------------------------------------------------------------
(* NthPrime(n) called alone, for the queries 0 .. MaxWheelN. *)

InitWheel ==
  /\ n \in 0..MaxWheelN
  /\ pc = "O2_entry"
  /\ retE = [st |-> "pending", val |-> <<>>]
  /\ retS = [st |-> "pending", val |-> <<>>]
  /\ retO1 = Pending
  /\ retO2 = Pending
  /\ eArg = n /\ eCaller = "top" /\ integers = <<>> /\ eI = 0
  /\ upperBound = 0 /\ segmentSize = 0 /\ primes = <<>> /\ bottom = 0 /\ top = 0
  /\ limit1 = 0 /\ root1 = 0 /\ sieve1 = {} /\ count1 = 0 /\ i1 = 0 /\ p1 = 0
  /\ limit = Num(0) /\ root = Num(0)
  /\ dim = 0 /\ sieve = <<>> /\ i = 0 /\ count = 0 /\ k = 0 /\ p = 0 /\ mask = {}

NextWheel ==
  \/ O2Hardcoded \/ O2Alloc \/ O2Mark \/ O2MarkDone \/ O2Count \/ O2CountDone
  \/ O2Scan \/ O2Return

SpecWheel == InitWheel /\ [][NextWheel]_vars

----------------------------------------------------------------------------
(* Properties *)

\* the value wheel index j stands for: 5, 7, 11, 13, 17, 19, ...
WheelValue(j) == 3 * j + 5 - (j % 2)

\* the wheel index of the bit the descending scan stopped at: the scan
\* leaves p one below it
SelectedIndex == (p + 1) + 32 * k

\* 2*floor(v/6) + d, with d = -1 if v mod 6 = 0, +1 if v mod 6 = 5, else 0
WheelIndexOf(v) ==
  2 * (v \div 6) + (CASE v % 6 = 0 -> 0 - 1 [] v % 6 = 5 -> 1 [] OTHER -> 0)

\* C1: for every n >= 0, NthPrime(n) returns the 0-indexed n-th prime: a
\* prime with exactly n primes below it; 2, 3, 5 for n = 0, 1, 2, and
\* 23, 31, 541, 3581 for n = 8, 10, 99, 500.
C1_NthPrimeReturnsNthPrime ==
  (pc = "done" /\ n >= 0) =>
     /\ retO2.st = "returned"
     /\ IsNthPrime(n, retO2.val)
     /\ n = 0 => retO2.val = 2
     /\ n = 1 => retO2.val = 3
     /\ n = 2 => retO2.val = 5
     /\ n = 8 => retO2.val = 23
     /\ n = 10 => retO2.val = 31
     /\ n = 99 => retO2.val = 541
     /\ n = 500 => retO2.val = 3581

\* NthPrime(99) has run through the sieve, the word count and the bit scan
\* and returned 541.
C1_Witness ==
  pc = "done" /\ n = 99 /\ retO2 = Returned(541) /\ k > 0 /\ p < 31

\* C2: for every n >= 0 the four strategies give the same n-th prime, and
\* none of them gives undefined: sieveOfEratosthenes(n)[n] =
\* segmentedSieve(n)[n] = optimizedSieve(n) = optimizedSieve2(n).
C2_StrategiesAgree ==
  (pc = "done" /\ n >= 0) =>
     /\ retE.st = "returned" /\ retS.st = "returned"
     /\ retO1.st = "returned" /\ retO2.st = "returned"
     /\ Len(retE.val) > n
     /\ Len(retS.val) > n
     /\ retE.val[n + 1] = retO2.val
     /\ retS.val[n + 1] = retO2.val
     /\ retO1.val = retO2.val

\* C3: for every n >= 0 the arrays sieveOfEratosthenes(n) and
\* segmentedSieve(n) have exactly n+1 elements and their last element is
\* NthPrime(n).
C3_SequenceLengthAndLast ==
  (pc = "done" /\ n >= 0) =>
     /\ retE.st = "returned" /\ retS.st = "returned" /\ retO2.st = "returned"
     /\ Len(retE.val) = n + 1
     /\ Len(retS.val) = n + 1
     /\ retE.val[Len(retE.val)] = retO2.val
     /\ retS.val[Len(retS.val)] = retO2.val

\* C4: in segmentedSieve(n), after the seed step, after every window and on
\* return, primes is strictly ascending (hence without duplicates) and holds
\* prime numbers only.
C4_PrimesAscendingAndPrime ==
  /\ pc = "S_window" => (StrictlyAscending(primes) /\ AllPrime(primes))
  /\ retS.st = "returned" => (StrictlyAscending(retS.val) /\ AllPrime(retS.val))

\* segmentedSieve has sieved at least two windows, the last of them
\* appended a prime that no seed can hold, and the seed holds primes of that
\* window's range or beyond, which are sieving primes for it.
C4_Witness ==
  /\ pc = "S_window"
  /\ bottom >= 3 * segmentSize
  /\ primes[Len(primes)] > CeilBound(segmentSize)
  /\ primes[Len(primes)] >= bottom - segmentSize
  /\ \E a \in 1..Len(primes) : primes[a] > segmentSize /\ primes[a] <= CeilBound(segmentSize)

\* C5: NthPrime(n) for a negative n fails with an error; it never returns a
\* number.
C5_NegativeNeverReturns ==
  n < 0 => (retO2.st # "returned" /\ (pc = "done" => retO2.st = "threw"))

\* C6: for every n >= 3 the bound upperBound of sieveOfEratosthenes(n) and of
\* segmentedSieve(n) is at least the 0-indexed n-th prime, that is, at least
\* n+1 primes are <= upperBound, and the returned array has an element at
\* index n.
C6_UpperBoundCoversNthPrime ==
  n >= 3 =>
     /\ (pc = "E_mark" /\ eCaller = "top") =>
           Cardinality(PrimesUpTo(ArrLen(integers) - 1)) >= n + 1
     /\ pc = "S_window" => Cardinality(PrimesUpTo(upperBound)) >= n + 1
     /\ retE.st = "returned" => Len(retE.val) > n
     /\ retS.st = "returned" => Len(retS.val) > n

\* C7: in optimizedSieve2(n), n >= 3, when the marking loop has finished,
\* for every wheel index j with 0 <= j < limit, bit j of the buffer is set
\* if and only if the value 3j + 5 - (j mod 2) is composite.
C7_BitsAreExactlyComposites ==
  (n >= 3 /\ pc = "O2_count" /\ k = 0) =>
     \A j \in 0..(limit.thirds \div 3) :
        Lt(j, limit) => (BitSet(sieve, j) <=> ~IsPrime(WheelValue(j)))

\* C8: in segmentedSieve(n), n >= 3, the seed that sieveOfEratosthenes(
\* segmentSize) returns is exactly the ascending sequence of the primes in
\* [0, segmentSize]; no seed prime is greater than segmentSize.
C8_SeedIsPrimesUpToSegmentSize ==
  (n >= 3 /\ pc = "S_window" /\ bottom = segmentSize) =>
     /\ primes = SortedSeq(PrimesUpTo(segmentSize))
     /\ \A a \in 1..Len(primes) : primes[a] <= segmentSize

\* C9: in optimizedSieve2(n), n >= 3, after the two switch statements limit
\* and root are the integers 2*floor(v/6) + d of their values v before.
C9_RescaledAreWheelIndices ==
  (n >= 3 /\ pc \in {"O2_mark", "O2_count", "O2_scan"}) =>
     /\ limit = Num(3 * WheelIndexOf(FloorBound(n)))
     /\ root = Num(3 * WheelIndexOf(FloorSqrt(FloorBound(n))))

\* C10: in optimizedSieve2(n), n >= 3, the word count reaches n+1 at a word
\* k < dim, the bit scan stops at a bit position in 0..31 of that word, and
\* the wheel index of that bit is below the rescaled limit.
C10_ResultReadFromSievedBits ==
  (n >= 3 /\ pc = "O2_scan" /\ ~(count >= n + 1)) =>
     /\ k >= 0 /\ k < dim
     /\ (p + 1) \in 0..31
     /\ Lt(SelectedIndex, limit)

====
